---- MODULE Spec2Model ----
(***************************************************************************)
(* State-machine model of the P2P signaling client in src/main.go: the     *)
(* Client struct (relay connection, local identity, peerConns and          *)
(* dataChannels maps), the command loop of main, the dispatcher goroutine  *)
(* handleIncomingMessages, and the data-channel callbacks registered by    *)
(* setupDataChannel and handleOffer.                                       *)
(***************************************************************************)
EXTENDS Integers, Sequences, FiniteSets, TLC

\* ------------------------------------------------------------------ bounds
\* Connection objects (webrtc.PeerConnection) the run may create.
MaxConns == 2
\* Data channel objects (webrtc.DataChannel) the run may create.
MaxChans == 2
\* Peer identifiers of the run; "" is what a missing or undecodable
\* "source" field and an empty command argument give.
PeerIds == {"xyz"}
Keys == PeerIds \cup {""}
\* Identifiers a `registered` envelope may carry ("": none).
RegIds == {"", "abc", "def"}
\* Texts of the `send` command.
Msgs == {"hello"}
\* Network candidates an inbound `ice-candidate` envelope may carry.
Cands == {"c1"}

NoConn == 0
NoChan == 0

VARIABLES
    peerID,        \* Client.peerID ("" until registered)
    peerConns,     \* Client.peerConns: key -> connection object (NoConn: no entry)
    dataChannels,  \* Client.dataChannels: key -> data channel (NoChan: no entry)
    pcs,           \* the connection objects created so far, in creation order
    dcs,           \* the data channel objects created so far, in creation order
    running,       \* the dispatcher goroutine is in its loop
    exited,        \* main has returned (the `exit` command): the process is gone
    busy,          \* the map accesses in progress, one record per flow of control
    crashed,       \* the Go runtime has thrown "concurrent map" and ended the process
    ev,            \* what the last handler did: calls made, frames written, text printed
    net            \* two clients attached to one relay, and the frames between them

vars == <<peerID, peerConns, dataChannels, pcs, dcs, running, exited, busy, crashed, ev, net>>

\* --------------------------------------------------------- JSON text model
\* A JSON text is a sequence of lexical items: punctuation, a quoted string,
\* a literal, or a raw character that was written without quotes.
Punct(c) == [k |-> "punct", v |-> c]
Quoted(s) == [k |-> "str", v |-> s]
Lit(s) == [k |-> "lit", v |-> s]
RawText(s) == [i \in 1..Len(s) |-> [k |-> "raw", v |-> s[i]]]

Digits == {"0", "1", "2", "3", "4", "5", "6", "7", "8", "9"}

\* The SDP text of a session description the connection object creates
\* (CreateOffer, CreateAnswer): it starts "v=0".
SDPText == <<"v", "=", "0">>

RECURSIVE SkipDigits(_, _)
SkipDigits(t, i) ==
    IF i <= Len(t) /\ t[i].k = "raw" /\ t[i].v \in Digits
    THEN SkipDigits(t, i + 1)
    ELSE i

\* encoding/json's syntax check of a value starting at item i: the index
\* after the value, or 0 when the text is not JSON.
RECURSIVE ParseValue(_, _)
RECURSIVE ParseMembers(_, _)
ParseValue(t, i) ==
    IF i > Len(t) THEN 0
    ELSE IF t[i].k \in {"str", "lit"} THEN i + 1
    ELSE IF t[i].k = "raw"
         THEN (IF t[i].v \in Digits THEN SkipDigits(t, i) ELSE 0)
    ELSE IF t[i] = Punct("{")
         THEN (IF i + 1 <= Len(t) /\ t[i + 1] = Punct("}")
               THEN i + 2
               ELSE ParseMembers(t, i + 1))
    ELSE 0

ParseMembers(t, i) ==
    IF i + 1 > Len(t) \/ t[i].k # "str" \/ t[i + 1] # Punct(":") THEN 0
    ELSE LET j == ParseValue(t, i + 2) IN
         IF j = 0 \/ j > Len(t) THEN 0
         ELSE IF t[j] = Punct(",") THEN ParseMembers(t, j + 1)
         ELSE IF t[j] = Punct("}") THEN j + 1
         ELSE 0

ValidJSON(t) == ParseValue(t, 1) = Len(t) + 1

\* json.RawMessage.MarshalJSON: a nil payload is written as null.
MarshalRaw(p) == IF p = <<>> THEN <<Lit("null")>> ELSE p

\* What a failed WriteJSON leaves on the wire: the writer is closed with
\* nothing written, an empty text frame and no envelope.
EmptyFrame == [type |-> "", payload |-> <<>>]

\* conn.WriteJSON(Message{Type, Payload}): the frame put on the relay
\* connection.  The encoder compacts, and so validates, a RawMessage; when it
\* is not JSON, encoding fails before a byte of the envelope is written.
WriteJSON(type, payload) ==
    IF ValidJSON(MarshalRaw(payload))
    THEN [type |-> type, payload |-> MarshalRaw(payload)]
    ELSE EmptyFrame

\* fmt.Sprintf(`{"target":"%s","offer":%s}`, peerID, offer.SDP)
OfferPayload(peer, sdp) ==
    <<Punct("{"), Quoted("target"), Punct(":"), Quoted(peer), Punct(","),
      Quoted("offer"), Punct(":")>> \o RawText(sdp) \o <<Punct("}")>>

\* fmt.Sprintf(`{"target":"%s","answer":%s}`, sourcePeerID, answer.SDP)
AnswerPayload(peer, sdp) ==
    <<Punct("{"), Quoted("target"), Punct(":"), Quoted(peer), Punct(","),
      Quoted("answer"), Punct(":")>> \o RawText(sdp) \o <<Punct("}")>>

\* The relay's reading of an envelope: the items of member `key` of a flat
\* payload object, <<>> when there is none.
RECURSIVE MemberFrom(_, _, _)
MemberFrom(t, key, i) ==
    IF i + 2 > Len(t) THEN <<>>
    ELSE IF t[i] = Quoted(key) /\ t[i + 1] = Punct(":")
         THEN LET j == ParseValue(t, i + 2) IN
              IF j = 0 THEN <<>> ELSE SubSeq(t, i + 2, j - 1)
    ELSE MemberFrom(t, key, i + 1)

Member(frame, key) == MemberFrom(frame.payload, key, 2)

\* ------------------------------------------------------------------ state
NoCalls == <<>>
NoFrames == <<>>

\* obj: the connection object or data channel the handler created or used
\* (0: none).
Event(op, peer, arg, obj, calls, frames, out) ==
    [op |-> op, peer |-> peer, arg |-> arg, obj |-> obj, calls |-> calls,
     frames |-> frames, out |-> out]

Call(fn, obj, arg) == [fn |-> fn, obj |-> obj, arg |-> arg]

\* NewClient: both maps empty, no identity.
\* Two clients on one relay.  The relay gives the first the identifier "abc"
\* and the second "xyz".
Clients == {"A", "B"}
RelayId(c) == IF c = "A" THEN "abc" ELSE "xyz"
\* The keys of a client's maps: the identifiers the relay gives, and "".
NetKeys == {RelayId(c) : c \in Clients} \cup {""}

\* NewClient(conn): empty maps, no identity.
NewClient ==
    [peerID |-> "",
     peerConns |-> [k \in NetKeys |-> NoConn],
     dataChannels |-> [k \in NetKeys |-> NoChan],
     pcs |-> <<>>,
     dcs |-> <<>>]

\* cl: the clients; up[c]: the frames client c wrote that the relay has not
\* read; down[c]: the frames the relay wrote that c's dispatcher has not read;
\* regs[c]: the register commands c was given; issued: the first client was
\* given `connect xyz`.
StartNet ==
    [cl |-> [c \in Clients |-> NewClient],
     up |-> [c \in Clients |-> <<>>],
     down |-> [c \in Clients |-> <<>>],
     regs |-> [c \in Clients |-> 0],
     issued |-> FALSE]

\* The client's own state after NewClient, before any command or frame.
Fresh ==
    /\ peerID = ""
    /\ peerConns = [k \in Keys |-> NoConn]
    /\ dataChannels = [k \in Keys |-> NoChan]
    /\ pcs = <<>>
    /\ dcs = <<>>
    /\ running = TRUE
    /\ exited = FALSE
    /\ busy = {}
    /\ crashed = FALSE
    /\ ev = Event("init", "", "", 0, NoCalls, NoFrames, "")

\* The client alone, with whatever frames may reach it: no second client and
\* no relay are part of the state.
NoNet == <<>>

Init == net = NoNet /\ Fresh

\* Two fresh clients attached to the relay.
InitRelay == net = StartNet /\ Fresh

\* A map access in progress: which flow of control (the command loop "main",
\* the dispatcher "disp", or the callback "cb" of data channel ch), which
\* map, read or write.
Access(flow, ch, map, kind) == [flow |-> flow, ch |-> ch, map |-> map, kind |-> kind]

Enter(hold, a) == IF hold THEN busy \cup {a} ELSE busy

Alive == ~exited /\ ~crashed
\* The command loop is between two commands.
MainIdle == Alive /\ \A a \in busy : a.flow # "main"
\* The dispatcher is in its loop, about to read the next frame.
DispIdle == Alive /\ running /\ \A a \in busy : a.flow # "disp"

\* ------------------------------------------------------------ command loop
\* c.peerConns[peerID] = peerConnection
StoreConn(m, p, c) == [m EXCEPT ![p] = c]

\* The open callback forgets the assignment.
StoreChanDropped(m, p, d) == m

\* c.dataChannels[peerID] = dataChannel
StoreChan(m, p, d) == [m EXCEPT ![p] = d]

\* The connection object ConnectToPeer has after SetLocalDescription(offer).
NewOfferer(p) == [peer |-> p, role |-> "offerer", sig |-> "have-local-offer"]

\* The connection object handleOffer has after SetLocalDescription(answer).
NewAnswerer(p) == [peer |-> p, role |-> "answerer", sig |-> "stable"]

\* A data channel with the callbacks of setupDataChannel(dataChannel, peerID).
NewChannel(c, p) == [pc |-> c, peer |-> p, opened |-> FALSE]

ConnectErrs == {"none", "NewPeerConnection", "CreateDataChannel", "CreateOffer", "SetLocalDescription"}
OfferErrs == {"none", "NewPeerConnection", "SetRemoteDescription", "CreateAnswer", "SetLocalDescription"}

\* An answerer that also trickles a candidate of its own to the relay.
OfferFramesWithCandidate(p) ==
    <<WriteJSON("answer", AnswerPayload(p, SDPText)), WriteJSON("ice-candidate", <<>>)>>

\* The frames ConnectToPeer writes: c.conn.WriteJSON(offerMsg).
ConnectFrames(p) == <<WriteJSON("offer", OfferPayload(p, SDPText))>>

\* The frames handleOffer writes: c.conn.WriteJSON(answerMsg).
OfferFrames(p) == <<WriteJSON("answer", AnswerPayload(p, SDPText))>>

\* Register: one `register` envelope with no payload.
Register ==
    /\ MainIdle
    /\ ev' = Event("register", "", "", 0, NoCalls, <<WriteJSON("register", <<>>)>>, "")
    /\ UNCHANGED <<peerID, peerConns, dataChannels, pcs, dcs, running, exited, busy, crashed, net>>

\* ConnectToPeer with the session stored before the offer is created: a
\* failure of CreateOffer or SetLocalDescription leaves it in the registry.
ConnectToPeerStoresFirst(p, err, hold) ==
    /\ MainIdle
    /\ Len(pcs) < MaxConns
    /\ Len(dcs) < MaxChans
    /\ IF err \in {"NewPeerConnection", "CreateDataChannel"}
       THEN UNCHANGED <<peerConns, pcs, dcs>>
       ELSE /\ pcs' = Append(pcs, NewOfferer(p))
            /\ dcs' = Append(dcs, NewChannel(Len(pcs) + 1, p))
            /\ peerConns' = StoreConn(peerConns, p, Len(pcs) + 1)
    /\ busy' = Enter(hold, Access("main", 0, "peerConns", "write"))
    /\ ev' = IF err # "none"
             THEN Event("connect", p, err, 0, NoCalls, NoFrames, "Error connecting to peer")
             ELSE Event("connect", p, "none", Len(pcs) + 1, NoCalls, ConnectFrames(p), "")
    /\ UNCHANGED <<peerID, dataChannels, running, exited, crashed, net>>

\* ConnectToPeer(p).  err names the negotiation step that fails; the objects
\* of a failed call are reachable from nothing and are not kept.
ConnectToPeer(p, err, hold) ==
    /\ MainIdle
    /\ IF err # "none"
       THEN /\ ev' = Event("connect", p, err, 0, NoCalls, NoFrames, "Error connecting to peer")
            /\ UNCHANGED <<peerID, peerConns, dataChannels, pcs, dcs, running, exited, busy, crashed, net>>
       ELSE /\ Len(pcs) < MaxConns
            /\ Len(dcs) < MaxChans
            /\ pcs' = Append(pcs, NewOfferer(p))
            /\ dcs' = Append(dcs, NewChannel(Len(pcs) + 1, p))
            /\ peerConns' = StoreConn(peerConns, p, Len(pcs) + 1)
            /\ busy' = Enter(hold, Access("main", 0, "peerConns", "write"))
            /\ ev' = Event("connect", p, "none", Len(pcs) + 1, NoCalls, ConnectFrames(p), "")
            /\ UNCHANGED <<peerID, dataChannels, running, exited, crashed, net>>

\* SendMessage without the `ok` test of the lookup.
SendCallsUnchecked(d, m) == <<Call("SendText", d, m)>>

\* The calls SendMessage makes on the channel it looked up.
SendCalls(d, m) == IF d # NoChan THEN <<Call("SendText", d, m)>> ELSE NoCalls

\* What SendMessage prints.
SendNotice(d) == IF d # NoChan THEN "Message sent" ELSE "No open data channel"

\* SendMessage(p, m)
SendMessage(p, m, hold) ==
    /\ MainIdle
    /\ busy' = Enter(hold, Access("main", 0, "dataChannels", "read"))
    /\ ev' = Event("send", p, m, dataChannels[p], SendCalls(dataChannels[p], m), NoFrames,
                   SendNotice(dataChannels[p]))
    /\ UNCHANGED <<peerID, peerConns, dataChannels, pcs, dcs, running, exited, crashed, net>>

\* `connect` or `send` with too few words.
Usage(cmd) ==
    /\ MainIdle
    /\ ev' = Event("usage", "", cmd, 0, NoCalls, NoFrames, "Usage")
    /\ UNCHANGED <<peerID, peerConns, dataChannels, pcs, dcs, running, exited, busy, crashed, net>>

\* Any other first word.
Unknown ==
    /\ MainIdle
    /\ ev' = Event("unknown", "", "", 0, NoCalls, NoFrames, "Unknown command")
    /\ UNCHANGED <<peerID, peerConns, dataChannels, pcs, dcs, running, exited, busy, crashed, net>>

\* `exit`: main returns and the process ends.
Exit ==
    /\ MainIdle
    /\ exited' = TRUE
    /\ ev' = Event("exit", "", "", 0, NoCalls, NoFrames, "")
    /\ UNCHANGED <<peerID, peerConns, dataChannels, pcs, dcs, running, busy, crashed, net>>

\* -------------------------------------------------------------- dispatcher
\* ReadJSON returns an error: the connection failed or closed ("closed"), or
\* the frame is not a JSON envelope ("malformed").  Either way the loop
\* logs and returns.
\* A loop that logs the read error and reads again.
ReadNeverStops(kind) == FALSE

ReadStops(kind) == TRUE

ReadError(kind) ==
    /\ DispIdle
    /\ running' = ~ReadStops(kind)
    /\ ev' = Event("read-error", "", kind, 0, NoCalls, NoFrames, "")
    /\ UNCHANGED <<peerID, peerConns, dataChannels, pcs, dcs, exited, busy, crashed, net>>

\* A client that keeps its first identity.
RegisteredOnce(old, pid, ok) == IF ok /\ pid # "" /\ old = "" THEN pid ELSE old

\* The identity after a `registered` envelope: ok says the payload decodes.
Registered(old, pid, ok) == IF ok /\ pid # "" THEN pid ELSE old

\* What the `registered` case logs or prints.
RegisteredNotice(pid, ok) ==
    IF ~ok THEN "Error unmarshalling registered payload"
    ELSE IF pid = "" THEN "Received empty peer ID"
    ELSE "Registered with peer ID"

\* pid is payload.PeerID after json.Unmarshal, ok says Unmarshal returned no
\* error.
RecvRegistered(pid, ok) ==
    /\ DispIdle
    /\ peerID' = Registered(peerID, pid, ok)
    /\ ev' = Event("registered", "", pid, 0, NoCalls, NoFrames, RegisteredNotice(pid, ok))
    /\ UNCHANGED <<peerConns, dataChannels, pcs, dcs, running, exited, busy, crashed, net>>

\* handleOffer(offer, src): good says the payload carries a usable session
\* description (SetRemoteDescription rejects the zero value an undecodable
\* payload leaves); err names the negotiation step that fails.
handleOffer(src, good, err, hold) ==
    /\ DispIdle
    /\ IF err # "none" \/ ~good
       THEN /\ ev' = Event("offer", src, IF err # "none" THEN err ELSE "SetRemoteDescription",
                           0, NoCalls, NoFrames, "")
            /\ UNCHANGED <<peerID, peerConns, dataChannels, pcs, dcs, running, exited, busy, crashed, net>>
       ELSE /\ Len(pcs) < MaxConns
            /\ pcs' = Append(pcs, NewAnswerer(src))
            /\ peerConns' = StoreConn(peerConns, src, Len(pcs) + 1)
            /\ busy' = Enter(hold, Access("disp", 0, "peerConns", "write"))
            /\ ev' = Event("offer", src, "none", Len(pcs) + 1, NoCalls, OfferFrames(src), "")
            /\ UNCHANGED <<peerID, dataChannels, dcs, running, exited, crashed, net>>

\* peerConnection.SetRemoteDescription(answer) on a stored connection object:
\* an answer is accepted in have-local-offer and rejected otherwise.
ApplyAnswer(pc, good) ==
    IF good /\ pc.sig = "have-local-offer" THEN [pc EXCEPT !.sig = "stable"] ELSE pc

\* handleAnswer without the `ok` test of the lookup.
AnswerCallsUnchecked(c, good) ==
    <<Call("SetRemoteDescription", c, IF good THEN "answer" ELSE "zero")>>

\* The calls handleAnswer makes on the connection object it looked up.
AnswerCalls(c, good) ==
    IF c # NoConn
    THEN <<Call("SetRemoteDescription", c, IF good THEN "answer" ELSE "zero")>>
    ELSE NoCalls

\* handleAnswer(answer, src)
handleAnswer(src, good, hold) ==
    /\ DispIdle
    /\ pcs' = IF peerConns[src] # NoConn
              THEN [pcs EXCEPT ![peerConns[src]] = ApplyAnswer(@, good)]
              ELSE pcs
    /\ busy' = Enter(hold, Access("disp", 0, "peerConns", "read"))
    /\ ev' = Event("answer", src, IF good THEN "answer" ELSE "zero", peerConns[src],
                   AnswerCalls(peerConns[src], good), NoFrames, "")
    /\ UNCHANGED <<peerID, peerConns, dataChannels, dcs, running, exited, crashed, net>>

\* handleICECandidate without the `ok` test of the lookup.
CandidateCallsUnchecked(c, cand) == <<Call("AddICECandidate", c, cand)>>

\* The calls handleICECandidate makes on the connection object it looked up.
CandidateCalls(c, cand) ==
    IF c # NoConn THEN <<Call("AddICECandidate", c, cand)>> ELSE NoCalls

\* handleICECandidate(candidate, src): the candidate goes to the connection
\* object stored for src, if there is one, and is kept nowhere else.
handleICECandidate(src, cand, hold) ==
    /\ DispIdle
    /\ busy' = Enter(hold, Access("disp", 0, "peerConns", "read"))
    /\ ev' = Event("ice-candidate", src, cand, peerConns[src],
                   CandidateCalls(peerConns[src], cand), NoFrames, "")
    /\ UNCHANGED <<peerID, peerConns, dataChannels, pcs, dcs, running, exited, crashed, net>>

\* A switch whose default case leaves the loop.
RecvOtherStops ==
    /\ DispIdle
    /\ running' = FALSE
    /\ ev' = Event("other", "", "", 0, NoCalls, NoFrames, "")
    /\ UNCHANGED <<peerID, peerConns, dataChannels, pcs, dcs, exited, busy, crashed, net>>

\* An envelope whose type no case of the switch names.
RecvOther ==
    /\ DispIdle
    /\ ev' = Event("other", "", "", 0, NoCalls, NoFrames, "")
    /\ UNCHANGED <<peerID, peerConns, dataChannels, pcs, dcs, running, exited, busy, crashed, net>>

\* --------------------------------------------------------------- callbacks
\* The OnDataChannel callback handleOffer registered on connection object c:
\* the remote side opened a channel; setupDataChannel registers its callbacks.
OnDataChannel(c) ==
    /\ Alive
    /\ c \in 1..Len(pcs)
    /\ pcs[c].role = "answerer"
    /\ Len(dcs) < MaxChans
    /\ dcs' = Append(dcs, NewChannel(c, pcs[c].peer))
    /\ ev' = Event("ondatachannel", pcs[c].peer, "", Len(dcs) + 1, NoCalls, NoFrames, "")
    /\ UNCHANGED <<peerID, peerConns, dataChannels, pcs, running, exited, busy, crashed, net>>

\* The OnOpen callback setupDataChannel registered on data channel d: it fires
\* once, when the channel's connection object has both descriptions.
OnOpen(d, hold) ==
    /\ Alive
    /\ d \in 1..Len(dcs)
    /\ ~dcs[d].opened
    /\ pcs[dcs[d].pc].sig = "stable"
    /\ dcs' = [dcs EXCEPT ![d].opened = TRUE]
    /\ dataChannels' = StoreChan(dataChannels, dcs[d].peer, d)
    /\ busy' = Enter(hold, Access("cb", d, "dataChannels", "write"))
    /\ ev' = Event("onopen", dcs[d].peer, "", d, NoCalls, NoFrames, "Data channel opened")
    /\ UNCHANGED <<peerID, peerConns, pcs, running, exited, crashed, net>>

\* ------------------------------------------------- handlers, each as a whole
Connect == \E p \in Keys, err \in ConnectErrs : ConnectToPeer(p, err, FALSE)
Send == \E p \in Keys, m \in Msgs : SendMessage(p, m, FALSE)
BadCommand == \E cmd \in {"connect", "send"} : Usage(cmd)
ReadFails == \E kind \in {"closed", "malformed"} : ReadError(kind)
RecvRegisteredMsg == \E pid \in RegIds, ok \in BOOLEAN : RecvRegistered(pid, ok)
RecvOffer == \E src \in Keys, good \in BOOLEAN, err \in OfferErrs : handleOffer(src, good, err, FALSE)
RecvAnswer == \E src \in Keys, good \in BOOLEAN : handleAnswer(src, good, FALSE)
RecvCandidate == \E src \in Keys, cand \in Cands : handleICECandidate(src, cand, FALSE)
InboundChannel == \E c \in 1..MaxConns : OnDataChannel(c)
ChannelOpens == \E d \in 1..MaxChans : OnOpen(d, FALSE)

Next ==
    \/ Register
    \/ Connect
    \/ Send
    \/ BadCommand
    \/ Unknown
    \/ Exit
    \/ ReadFails
    \/ RecvRegisteredMsg
    \/ RecvOffer
    \/ RecvAnswer
    \/ RecvCandidate
    \/ RecvOther
    \/ InboundChannel
    \/ ChannelOpens

Spec == Init /\ [][Next]_vars

\* ------------------------------------- the same handlers, map accesses timed
\* Nothing orders the three flows of control: a handler's map access takes
\* time, and another flow may start its own before it ends.
ConnectR == \E p \in Keys, err \in ConnectErrs : ConnectToPeer(p, err, TRUE)
SendR == \E p \in Keys, m \in Msgs : SendMessage(p, m, TRUE)
RecvOfferR == \E src \in Keys, good \in BOOLEAN, err \in OfferErrs : handleOffer(src, good, err, TRUE)
RecvAnswerR == \E src \in Keys, good \in BOOLEAN : handleAnswer(src, good, TRUE)
RecvCandidateR == \E src \in Keys, cand \in Cands : handleICECandidate(src, cand, TRUE)
ChannelOpensR == \E d \in 1..MaxChans : OnOpen(d, TRUE)

\* A flow's map access ends.
EndAccess ==
    /\ Alive
    /\ \E a \in busy : busy' = busy \ {a}
    /\ UNCHANGED <<peerID, peerConns, dataChannels, pcs, dcs, running, exited, crashed, ev, net>>

\* Two flows are in the same map and one of them writes.
Racing(a, b) == a # b /\ a.map = b.map /\ "write" \in {a.kind, b.kind}

\* The Go runtime may notice two flows in one map and throw
\* "fatal error: concurrent map writes" (or "...read and map write"),
\* which ends the process; it may also notice nothing.
Crash ==
    /\ Alive
    /\ \E a, b \in busy : Racing(a, b)
    /\ crashed' = TRUE
    /\ UNCHANGED <<peerID, peerConns, dataChannels, pcs, dcs, running, exited, busy, ev, net>>

NextRace ==
    \/ Register
    \/ ConnectR
    \/ SendR
    \/ BadCommand
    \/ Unknown
    \/ Exit
    \/ ReadFails
    \/ RecvRegisteredMsg
    \/ RecvOfferR
    \/ RecvAnswerR
    \/ RecvCandidateR
    \/ RecvOther
    \/ InboundChannel
    \/ ChannelOpensR
    \/ EndAccess
    \/ Crash

SpecRace == Init /\ [][NextRace]_vars

\* ------------------------------------------------------------------ claims
\* The negotiation state of the session with peer p, read off the two maps.
State(p) ==
    IF dataChannels[p] # NoChan THEN "Open"
    ELSE IF peerConns[p] = NoConn THEN "None"
    ELSE IF pcs[peerConns[p]].role = "offerer" THEN "OfferSent"
    ELSE "AnswerSent"

\* Some data channel set up for peer p has reported open.
ReachedOpen(p) == \E d \in 1..Len(dcs) : dcs[d].peer = p /\ dcs[d].opened

\* C1: with the identity "abc" registered, a `connect xyz` command whose
\* negotiation steps all succeed writes exactly one frame, an `offer`
\* envelope whose target is "xyz" and whose offer member is not empty.
C1_ConnectEmitsOneOffer ==
    (peerID = "abc" /\ ev.op = "connect" /\ ev.peer = "xyz" /\ ev.arg = "none")
        => /\ Len(ev.frames) = 1
           /\ ev.frames[1].type = "offer"
           /\ Member(ev.frames[1], "target") = <<Quoted("xyz")>>
           /\ Member(ev.frames[1], "offer") # <<>>

\* C2: handling an inbound `offer` from a source peer with no session, the
\* negotiation steps succeeding, writes exactly one frame, an `answer`
\* envelope whose target is that source peer.
C2_OfferEmitsOneAnswer ==
    [][(ev'.op = "offer" /\ ev'.arg = "none" /\ peerConns[ev'.peer] = NoConn)
        => /\ Len(ev'.frames) = 1
           /\ ev'.frames[1].type = "answer"
           /\ Member(ev'.frames[1], "target") = <<Quoted(ev'.peer)>>]_vars

\* C3: dispatching an `answer` or `ice-candidate` envelope whose source peer
\* has no session writes no frame, calls nothing, leaves the registry, the
\* data-channel map, the identity and every object as they were, and leaves
\* the dispatch loop running.
C3_NoSessionIsNoOp ==
    [][(ev'.op \in {"answer", "ice-candidate"} /\ peerConns[ev'.peer] = NoConn)
        => /\ ev'.frames = NoFrames
           /\ ev'.calls = NoCalls
           /\ UNCHANGED <<peerConns, dataChannels, peerID, pcs, dcs>>
           /\ running' /\ ~crashed']_vars

\* An `answer` for a peer with no session was dispatched while another peer
\* has one, and the loop still runs.
C3_Witness ==
    /\ ev.op = "answer"
    /\ peerConns[ev.peer] = NoConn
    /\ \E q \in Keys : peerConns[q] # NoConn
    /\ running

\* C4: connect(P) stores a session for P whose data channel is set up for P;
\* a usable answer from P leaves that session's connection object with both
\* descriptions; the open callback of a channel set up for P stores that
\* channel for P (session P is Open); and send(P, msg) with a channel stored
\* for P calls SendText on that channel exactly once, with msg.
C4_RoundTrip ==
    /\ (ev.op = "connect" /\ ev.arg = "none")
           => /\ peerConns[ev.peer] = ev.obj
              /\ dcs[Len(dcs)] = [pc |-> ev.obj, peer |-> ev.peer, opened |-> FALSE]
    /\ (ev.op = "answer" /\ ev.arg = "answer" /\ ev.obj # NoConn)
           => pcs[ev.obj].sig = "stable"
    /\ ev.op = "onopen"
           => dataChannels[ev.peer] = ev.obj /\ State(ev.peer) = "Open"
    /\ (ev.op = "send" /\ dataChannels[ev.peer] # NoChan)
           => ev.calls = <<Call("SendText", dataChannels[ev.peer], ev.arg)>>

\* send(xyz, hello) went to the channel that connect(xyz) created, after the
\* answer and the open callback.
C4_Witness ==
    /\ ev.op = "send"
    /\ ev.peer = "xyz"
    /\ ev.calls = <<Call("SendText", dataChannels["xyz"], "hello")>>
    /\ dataChannels["xyz"] # NoChan
    /\ dcs[dataChannels["xyz"]].opened
    /\ pcs[dcs[dataChannels["xyz"]].pc].role = "offerer"
    /\ pcs[dcs[dataChannels["xyz"]].pc].sig = "stable"

\* C5: while no data channel set up for peer P has reported open, send(P, msg)
\* prints the "No open data channel" notice, calls SendText on no channel and
\* leaves the registry, the data-channel map and every object as they were.
C5_SendBeforeOpen ==
    [][(ev'.op = "send" /\ ~ReachedOpen(ev'.peer))
        => /\ ev'.out = "No open data channel"
           /\ ev'.calls = NoCalls
           /\ ev'.frames = NoFrames
           /\ UNCHANGED <<peerConns, dataChannels, pcs, dcs>>]_vars

\* send(P, msg) was refused while P's session exists but has not opened.
C5_Witness ==
    /\ ev.op = "send"
    /\ ev.out = "No open data channel"
    /\ State(ev.peer) \in {"OfferSent", "AnswerSent"}

\* C6: after a malformed frame the dispatcher is still in its loop, so that a
\* `registered` envelope arriving next is processed.
C6_MalformedContinues ==
    (ev.op = "read-error" /\ ev.arg = "malformed") => running

\* C7: once a connection object is stored for peer P, no later connect(P) or
\* offer from P stores another one.
C7_OneSessionPerPeer ==
    [][\A p \in Keys : peerConns[p] # NoConn => peerConns'[p] = peerConns[p]]_vars

\* C8: once a data channel is stored for peer P, the channel stored for P
\* never changes.
C8_ChannelStable ==
    [][\A p \in Keys : dataChannels[p] # NoChan => dataChannels'[p] = dataChannels[p]]_vars

\* C9: a session's state only moves None -> OfferSent -> Open or
\* None -> AnswerSent -> Open.
C9_StateOrder ==
    [][\A p \in Keys :
          \/ State(p)' = State(p)
          \/ State(p) = "None" /\ State(p)' \in {"OfferSent", "AnswerSent"}
          \/ State(p) \in {"OfferSent", "AnswerSent"} /\ State(p)' = "Open"]_vars

\* C10: no two flows of control are inside the same map at the same time.
C10_MapAccessExclusive ==
    \A a, b \in busy : a.map = b.map => a = b

\* C11: the identity is "" until a `registered` envelope is processed; a
\* `registered` envelope whose payload decodes to a non-empty peerId sets the
\* identity to that peerId, also over an earlier one; no other step changes it.
C11_IdentityFollowsRegistered ==
    /\ (ev.op = "init" => peerID = "")
    /\ [][IF ev'.op = "registered" /\ ev'.out = "Registered with peer ID"
          THEN ev'.arg # "" /\ peerID' = ev'.arg
          ELSE peerID' = peerID]_vars

\* A second registration has replaced the identity "abc" by "def", and a
\* command has run since without touching it.
C11_Witness ==
    /\ peerID = "def"
    /\ ev.op = "connect"
    /\ ev.arg = "none"

\* C12: when a negotiation step of connect(P) or of handling an offer from P
\* fails, the registry, the data-channel map, the identity and every stored
\* object are as before the operation, no frame is written and nothing is
\* called again.
C12_FailedNegotiationAborts ==
    [][(ev'.op \in {"connect", "offer"} /\ ev'.arg # "none")
        => /\ UNCHANGED <<peerConns, dataChannels, peerID, pcs, dcs>>
           /\ ev'.frames = NoFrames
           /\ ev'.calls = NoCalls]_vars

\* An offer from a peer whose session is in OfferSent failed at CreateAnswer
\* and the session is still in OfferSent.
C12_Witness ==
    /\ ev.op = "offer"
    /\ ev.arg = "CreateAnswer"
    /\ State(ev.peer) = "OfferSent"

\* C13: an inbound ice-candidate from P is applied, when it is handled, to
\* the connection object then stored for P, exactly once and only if there is
\* one; without a session it is dropped, and no other handler ever applies a
\* candidate, so a dropped candidate is never applied later.
C13_CandidateAppliedOrDropped ==
    /\ ev.op = "ice-candidate"
        => /\ ev.obj = peerConns[ev.peer]
           /\ ev.calls = IF peerConns[ev.peer] # NoConn
                         THEN <<Call("AddICECandidate", peerConns[ev.peer], ev.arg)>>
                         ELSE NoCalls
    /\ ev.op # "ice-candidate"
        => \A i \in 1..Len(ev.calls) : ev.calls[i].fn # "AddICECandidate"

\* A candidate was dropped for a peer without a session while the client holds
\* a connection object for another peer.
C13_Witness ==
    /\ ev.op = "ice-candidate"
    /\ peerConns[ev.peer] = NoConn
    /\ ev.calls = NoCalls
    /\ \E q \in Keys : peerConns[q] # NoConn

\* What the dispatcher's loop records: one value per way of handling a read.
DispatcherOps == {"read-error", "registered", "offer", "answer", "ice-candidate", "other"}

\* C15: a failed read ends the dispatch loop; once it has ended it never runs
\* again and no inbound envelope is handled, while the command loop, unless
\* the user exits, still takes commands.
C15_ReadErrorIsTerminal ==
    /\ []((~running /\ ~exited) => ENABLED Register)
    /\ [][/\ ev'.op = "read-error" => ~running'
          /\ ~running => (~running' /\ ev'.op \notin DispatcherOps)]_vars

\* The relay connection closed earlier and a later connect command went
\* through.
C15_Witness ==
    /\ ~running
    /\ ev.op = "connect"
    /\ ev.arg = "none"
    /\ peerConns[ev.peer] = ev.obj

\* C16: an inbound envelope of a kind other than registered, offer, answer
\* and ice-candidate changes neither the identity, the registry, the
\* data-channel map nor any stored object, writes no frame, calls nothing, and
\* leaves the dispatcher in its loop.
C16_UnknownKindIgnored ==
    [][ev'.op = "other"
        => /\ UNCHANGED <<peerID, peerConns, dataChannels, pcs, dcs>>
           /\ ev'.frames = NoFrames
           /\ ev'.calls = NoCalls
           /\ DispIdle']_vars

\* An envelope of unknown kind was ignored while a session has a stored
\* channel.
C16_Witness ==
    /\ ev.op = "other"
    /\ running
    /\ \E p \in Keys : peerConns[p] # NoConn /\ dataChannels[p] # NoChan

\* C17: an inbound answer from P takes effect as remote description of a
\* connection object only when P's session is in OfferSent.
C17_AnswerOnlyInOfferSent ==
    [][(ev'.op = "answer" /\ pcs' # pcs) => State(ev'.peer) = "OfferSent"]_vars

\* C18: an inbound registered, offer or answer envelope whose payload does
\* not decode changes nothing, calls nothing on a connection object, writes no
\* frame and leaves the dispatcher in its loop.
C18_UndecodablePayloadDropped ==
    [][(\/ ev'.op = "registered" /\ ev'.out = "Error unmarshalling registered payload"
        \/ ev'.op = "offer" /\ ev'.arg = "SetRemoteDescription"
        \/ ev'.op = "answer" /\ ev'.arg = "zero")
        => /\ UNCHANGED <<peerID, peerConns, dataChannels, pcs, dcs>>
           /\ ev'.frames = NoFrames
           /\ ev'.calls = NoCalls
           /\ DispIdle']_vars

\* The handlers that write nothing to the relay connection.
SilentOps == {"registered", "answer", "ice-candidate", "send", "ondatachannel", "onopen"}

\* C19: a register envelope is written only by the register command, an offer
\* envelope only by connect, an answer envelope only by the handling of an
\* inbound offer; no ice-candidate envelope is ever written, and the handling
\* of registered, answer and ice-candidate envelopes, the send command and the
\* data-channel callbacks write no frame at all.
C19_EnvelopeKindHasOneCause ==
    /\ \A i \in 1..Len(ev.frames) :
        /\ ev.frames[i].type = "register" => ev.op = "register"
        /\ ev.frames[i].type = "offer" => ev.op = "connect"
        /\ ev.frames[i].type = "answer" => ev.op = "offer"
        /\ ev.frames[i].type # "ice-candidate"
    /\ ev.op \in SilentOps => ev.frames = NoFrames

\* A register command wrote its register envelope on a client that already
\* holds an answering session.
C19_Witness ==
    /\ ev.op = "register"
    /\ Len(ev.frames) = 1
    /\ ev.frames[1].type = "register"
    /\ \E p \in Keys : State(p) = "AnswerSent"

\* C20: whenever a data channel is stored for peer P, a connection object is
\* stored for P and the channel was created on, or delivered by, that object.
C20_MapsConsistent ==
    \A p \in Keys :
        dataChannels[p] # NoChan
            => /\ peerConns[p] # NoConn
               /\ dcs[dataChannels[p]].pc = peerConns[p]

\* ------------------------------------------------ two clients and a relay
\* Register commands a client is given.
MaxRegs == 2

clientVars == <<peerID, peerConns, dataChannels, pcs, dcs, running, exited, busy, crashed, ev>>

\* json.Unmarshal of a member into a string field: "" unless it is a string.
Text(items) == IF Len(items) = 1 /\ items[1].k = "str" THEN items[1].v ELSE ""

\* json.Unmarshal of a member into a webrtc.SessionDescription that
\* SetRemoteDescription accepts: an object with an sdp member.
Describes(items) ==
    /\ Len(items) > 0
    /\ items[1] = Punct("{")
    /\ MemberFrom(items, "sdp", 2) # <<>>

\* The relay's reply to a register frame from client c.
RegisteredFrame(c) ==
    WriteJSON("registered",
              <<Punct("{"), Quoted("peerId"), Punct(":"), Quoted(RelayId(c)), Punct("}")>>)

\* The member that carries the body of an envelope of a kind.
Body(type) == IF type = "ice-candidate" THEN "candidate" ELSE type

\* The peer an envelope names as its target.
Target(f) == Text(Member(f, "target"))

\* The relay forwards an envelope whose target is attached.
Routable(f) ==
    /\ f.type \in {"offer", "answer", "ice-candidate"}
    /\ \E d \in Clients : RelayId(d) = Target(f)

\* The envelope the relay hands to the target: the body as sent, and the
\* sender's identifier as source.
Forwarded(f, src) ==
    WriteJSON(f.type,
              <<Punct("{"), Quoted(Body(f.type)), Punct(":")>>
                  \o MarshalRaw(Member(f, Body(f.type)))
                  \o <<Punct(","), Quoted("source"), Punct(":"), Quoted(src), Punct("}")>>)

\* ConnectToPeer(p) without a negotiation error: the client afterwards.
Connected(cl, p) ==
    [cl EXCEPT !.pcs = Append(@, NewOfferer(p)),
               !.dcs = Append(@, NewChannel(Len(cl.pcs) + 1, p)),
               !.peerConns = StoreConn(@, p, Len(cl.pcs) + 1)]

\* The source an inbound envelope names.
Source(f) == Text(Member(f, "source"))

\* One turn of the loop of handleIncomingMessages on envelope f: the client
\* afterwards.
Handled(cl, f) ==
    IF f.type = "registered"
    THEN [cl EXCEPT !.peerID = Registered(@, Text(Member(f, "peerId")), TRUE)]
    ELSE IF f.type = "offer"
    THEN (IF Describes(Member(f, "offer"))
          THEN [cl EXCEPT !.pcs = Append(@, NewAnswerer(Source(f))),
                          !.peerConns = StoreConn(@, Source(f), Len(cl.pcs) + 1)]
          ELSE cl)
    ELSE IF f.type = "answer" /\ cl.peerConns[Source(f)] # NoConn
    THEN [cl EXCEPT !.pcs[cl.peerConns[Source(f)]] =
                        ApplyAnswer(@, Describes(Member(f, "answer")))]
    ELSE cl

\* The frames that turn writes to the relay connection.
Replies(f) ==
    IF f.type = "offer" /\ Describes(Member(f, "offer"))
    THEN OfferFrames(Source(f))
    ELSE NoFrames

\* The OnDataChannel callback of connection object i of client c is due: an
\* answering connection object without a channel whose offering side has
\* applied the answer.
ChannelDue(n, c, i) ==
    LET cl == n.cl[c] IN
    /\ cl.pcs[i].role = "answerer"
    /\ \A d \in 1..Len(cl.dcs) : cl.dcs[d].pc # i
    /\ \E r \in Clients :
        /\ RelayId(r) = cl.pcs[i].peer
        /\ \E j \in 1..Len(n.cl[r].pcs) :
            /\ n.cl[r].pcs[j].role = "offerer"
            /\ n.cl[r].pcs[j].peer = RelayId(c)
            /\ n.cl[r].pcs[j].sig = "stable"

\* Client c after the OnDataChannel callbacks that are due on its connection
\* objects i, i + 1, ...
RECURSIVE DeliverFrom(_, _, _)
DeliverFrom(n, c, i) ==
    IF i > Len(n.cl[c].pcs) THEN n.cl[c]
    ELSE IF ChannelDue(n, c, i)
    THEN DeliverFrom([n EXCEPT !.cl[c].dcs = Append(@, NewChannel(i, n.cl[c].pcs[i].peer))],
                     c, i + 1)
    ELSE DeliverFrom(n, c, i + 1)

\* A client after the OnOpen callbacks that are due on its channels d,
\* d + 1, ...: a channel opens once, when its connection object has both
\* descriptions, and is stored under its peer.
RECURSIVE OpenFrom(_, _)
OpenFrom(cl, d) ==
    IF d > Len(cl.dcs) THEN cl
    ELSE IF ~cl.dcs[d].opened /\ cl.pcs[cl.dcs[d].pc].sig = "stable"
    THEN OpenFrom([cl EXCEPT !.dcs[d].opened = TRUE,
                             !.dataChannels = StoreChan(@, cl.dcs[d].peer, d)],
                  d + 1)
    ELSE OpenFrom(cl, d + 1)

\* The callbacks run as soon as they are due, which is one of the schedules
\* a fair scheduler of callbacks has.
Settle(n) ==
    LET m == [n EXCEPT !.cl = [c \in Clients |-> DeliverFrom(n, c, 1)]] IN
    [m EXCEPT !.cl = [c \in Clients |-> OpenFrom(m.cl[c], 1)]]

\* The `register` command at client c.
RegisterCmd(c) ==
    /\ net.regs[c] < MaxRegs
    /\ net' = [net EXCEPT !.regs[c] = @ + 1,
                          !.up[c] = Append(@, WriteJSON("register", <<>>))]
    /\ UNCHANGED clientVars

\* `connect xyz` at the first client, once both clients have their
\* identifiers.
ConnectCmd ==
    /\ ~net.issued
    /\ \A c \in Clients : net.cl[c].peerID = RelayId(c)
    /\ net' = Settle([net EXCEPT !.issued = TRUE,
                                 !.cl["A"] = Connected(@, RelayId("B")),
                                 !.up["A"] = @ \o ConnectFrames(RelayId("B"))])
    /\ UNCHANGED clientVars

\* The relay reads the next frame of client c: it replies to a register,
\* forwards an envelope to its target, and can do nothing with a frame that
\* is no envelope.
RelayStep(c) ==
    /\ net.up[c] # <<>>
    /\ LET f == Head(net.up[c])
           to == IF f.type = "register" THEN c
                 ELSE CHOOSE d \in Clients : Routable(f) => RelayId(d) = Target(f)
           out == IF f.type = "register" THEN <<RegisteredFrame(c)>>
                  ELSE IF Routable(f) THEN <<Forwarded(f, RelayId(c))>>
                  ELSE <<>>
       IN net' = [net EXCEPT !.up[c] = Tail(@), !.down[to] = @ \o out]
    /\ UNCHANGED clientVars

\* The dispatcher of client c reads and handles its next envelope.
DispatchStep(c) ==
    /\ net.down[c] # <<>>
    /\ LET f == Head(net.down[c])
       IN net' = Settle([net EXCEPT !.down[c] = Tail(@),
                                    !.cl[c] = Handled(@, f),
                                    !.up[c] = @ \o Replies(f)])
    /\ UNCHANGED clientVars

RegisterCmds == \E c \in Clients : RegisterCmd(c)
RelayDelivers == \E c \in Clients : RelayStep(c)
Dispatches == \E c \in Clients : DispatchStep(c)

NextRelay ==
    \/ RegisterCmds
    \/ ConnectCmd
    \/ RelayDelivers
    \/ Dispatches

\* The relay and the dispatchers are scheduled fairly; the user need not type.
SpecRelay ==
    /\ InitRelay
    /\ [][NextRelay]_vars
    /\ WF_vars(RelayDelivers)
    /\ WF_vars(Dispatches)

\* No frame is on its way and, the callbacks having run, nothing is pending.
Quiet == \A c \in Clients : net.up[c] = <<>> /\ net.down[c] = <<>>

\* Client c has a stored data channel for client d.
SessionOpen(c, d) == net.cl[c].dataChannels[RelayId(d)] # NoChan

\* C14: with both clients registered at a forwarding relay and no errors,
\* once the first has issued connect for the second and every frame has been
\* delivered and handled, each side has a stored data channel for the other.
C14_NegotiationCompletes ==
    (net.issued /\ Quiet) => (SessionOpen("A", "B") /\ SessionOpen("B", "A"))

====
